---- MODULE Spec2Model ----
(***************************************************************************)
(* ESCC multi-stage genomic summary: the per-stage pipeline                *)
(* (excel_3CNV_analysis.py) and the overall pipeline                       *)
(* (overall_analysis_excel.py).  One run of main is modelled: the walk     *)
(* over BASE_FOLDER (stage folders, sample folders, files), the            *)
(* accumulation, the summaries and the export.  os.listdir gives no order, *)
(* so every walk picks its next entry from the entries not yet visited.    *)
(*                                                                         *)
(* Strings are TLA+ strings.  A path is the tuple of its components under  *)
(* BASE_FOLDER.  Segment means are integers (tenths).  A parsed table      *)
(* (DataFrame) is held by reference: the path of the file it was parsed    *)
(* from; Parsed(path) is its content.                                      *)
(***************************************************************************)
EXTENDS Integers, Sequences, FiniteSets, TLC

VARIABLES
    variant,                \* which script runs: "per_stage" or "overall"
    fs,                     \* the tree under BASE_FOLDER: a set of paths
    log,                    \* FAILED_FILES_LOG: sequence of <<path, reason>>
    pc,                     \* position of main
    todoBase,               \* entries of BASE_FOLDER not yet enumerated
    stage,                  \* loop variable of main
    todoStage,              \* entries of the stage folder not yet enumerated
    sample,                 \* loop variable sample_folder of process_stage
    todoFiles,              \* entries of the sample folder not yet enumerated
    stage_data,             \* accumulator of process_stage
    all_cnv_segment_means,  \* overall: merged segment means
    all_snp_data_by_sample, \* overall: merged sample-keyed tables
    stage_summaries,        \* per-stage: insertion-ordered stage -> summary
    sheets,                 \* to_excel calls made on the writer, in order
    error                   \* "none", or the exception that ended the run

vars == <<variant, fs, log, pc, todoBase, stage, todoStage, sample, todoFiles,
          stage_data, all_cnv_segment_means, all_snp_data_by_sample,
          stage_summaries, sheets, error>>

(***************************************************************************)
(* Bounds of the model.                                                    *)
(***************************************************************************)
\* Number of entries (files at any depth) in the tree of one run.
MaxEntries == 2
\* Longest stage folder name tried by the export specification.
MaxStageLen == 29
\* Number of stage folders in the trees of the export specification.
MaxExportStages == 2

(***************************************************************************)
(* Python helpers.                                                         *)
(***************************************************************************)
\* None in place of a DataFrame (tables are held as paths, non-empty tuples)
None == <<>>
\* None in place of a column name; like None, the empty string is falsy
NoColumn == ""
NaN == "NaN"

Range(s) == {s[i] : i \in DOMAIN s}

Min2(a, b) == IF a <= b THEN a ELSE b

\* sub in s
Contains(s, sub) ==
    \E i \in 1..(Len(s) - Len(sub) + 1) : SubSeq(s, i, i + Len(sub) - 1) = sub

\* s.endswith(suffix)
EndsWith(s, suffix) ==
    /\ Len(s) >= Len(suffix)
    /\ SubSeq(s, Len(s) - Len(suffix) + 1, Len(s)) = suffix

\* s[:n]
Prefix(s, n) == SubSeq(s, 1, Min2(n, Len(s)))

LowerChar(c) ==
    CASE c = "A" -> "a" [] c = "B" -> "b" [] c = "C" -> "c" [] c = "D" -> "d"
      [] c = "E" -> "e" [] c = "F" -> "f" [] c = "G" -> "g" [] c = "H" -> "h"
      [] c = "I" -> "i" [] c = "J" -> "j" [] c = "K" -> "k" [] c = "L" -> "l"
      [] c = "M" -> "m" [] c = "N" -> "n" [] c = "O" -> "o" [] c = "P" -> "p"
      [] c = "Q" -> "q" [] c = "R" -> "r" [] c = "S" -> "s" [] c = "T" -> "t"
      [] c = "U" -> "u" [] c = "V" -> "v" [] c = "W" -> "w" [] c = "X" -> "x"
      [] c = "Y" -> "y" [] c = "Z" -> "z" [] OTHER -> c

RECURSIVE LowerFrom(_, _)
LowerFrom(s, i) ==
    IF i > Len(s) THEN "" ELSE LowerChar(SubSeq(s, i, i)) \o LowerFrom(s, i + 1)

\* s.lower()
Lower(s) == LowerFrom(s, 1)

RECURSIVE Repeat(_, _)
Repeat(s, n) == IF n = 0 THEN <<>> ELSE <<s>> \o Repeat(s, n - 1)

RECURSIVE RepeatStr(_, _)
RepeatStr(c, n) == IF n = 0 THEN "" ELSE c \o RepeatStr(c, n - 1)

\* Index of the first occurrence of x in sequence s (x must occur).
IndexOf(s, x) == CHOOSE i \in DOMAIN s : s[i] = x /\ \A j \in 1..(i - 1) : s[j] # x

\* Insertion-ordered dict of lists (defaultdict(list)): a sequence of
\* <<key, list>> pairs in order of first insertion.
DictKeys(d) == {d[i][1] : i \in DOMAIN d}

DictGet(d, k) == d[CHOOSE i \in DOMAIN d : d[i][1] = k][2]

\* d[k].extend(items)
DictExtend(d, k, items) ==
    IF k \in DictKeys(d)
    THEN [i \in DOMAIN d |-> IF d[i][1] = k THEN <<k, d[i][2] \o items>> ELSE d[i]]
    ELSE Append(d, <<k, items>>)

\* d[k] = v
DictSet(d, k, v) ==
    IF k \in DictKeys(d)
    THEN [i \in DOMAIN d |-> IF d[i][1] = k THEN <<k, v>> ELSE d[i]]
    ELSE Append(d, <<k, v>>)

RECURSIVE Flatten(_)
\* [x for xs in d.values() for x in xs]
Flatten(d) == IF d = <<>> THEN <<>> ELSE Head(d)[2] \o Flatten(Tail(d))

(***************************************************************************)
(* The files a run may meet.  A file's content is what pd.read_csv makes   *)
(* of it: ok = FALSE when the reader the file name selects raises          *)
(* (malformed text, decode error, no data left, a directory in place of a  *)
(* file), else the table of named columns and rows it returns.             *)
(***************************************************************************)
Unreadable == [ok |-> FALSE, columns |-> <<>>, rows |-> <<>>]

Table(cols, rws) == [ok |-> TRUE, columns |-> cols, rows |-> rws]

BigGenes == <<"G01", "G02", "G03", "G04", "G05", "G06", "G07", "G08", "G09",
              "G10", "G11">>

\* Rows per gene of the large mutation file: G10 and G11 tie at the cut.
BigCounts == <<10, 9, 8, 7, 6, 5, 4, 3, 2, 1, 1>>

RECURSIVE BigRows(_)
\* Rarest genes first, so first-seen order is the reverse of count order.
BigRows(i) ==
    IF i = 0 THEN <<>>
    ELSE Repeat(<<BigGenes[i], "Missense_Mutation">>, BigCounts[i]) \o BigRows(i - 1)

FileNames ==
    { "a.Copy_Number_Variation.seg.txt", "b.Copy_Number_Variation.maf",
      "c.Copy_Number_Variation.tsv", "d.Copy_Number_Variation.seg.txt",
      "e.Simple_Nucleotide_Variation.maf.txt", "f.maf",
      "g.Simple_Nucleotide_Variation.txt", "h.maf", "big.maf", "readme.txt" }

Content(name) ==
    CASE name = "a.Copy_Number_Variation.seg.txt" ->
            Table(<<"Chromosome", "Segment_Mean">>, << <<"1", 1>>, <<"2", -2>> >>)
      [] name = "b.Copy_Number_Variation.maf" ->
            Table(<<"Sample", "SEGMENTMEAN", "segment_mean">>, << <<"x", 3, 9>> >>)
      [] name = "c.Copy_Number_Variation.tsv" ->
            Table(<<"Chromosome", "Num_Probes">>, << <<"1", 7>> >>)
      [] name = "d.Copy_Number_Variation.seg.txt" -> Unreadable
      [] name = "e.Simple_Nucleotide_Variation.maf.txt" ->
            Table(<<"Hugo_Symbol", "Variant_Classification">>,
                  << <<"TP53", "Missense_Mutation">>, <<"KRAS", "Silent">>,
                     <<"TP53", "Missense_Mutation">> >>)
      [] name = "f.maf" ->
            Table(<<"Variant_Classification">>, << <<"Silent">>, <<"Nonsense_Mutation">> >>)
      [] name = "g.Simple_Nucleotide_Variation.txt" ->
            Table(<<"Hugo_Symbol">>, << <<"EGFR">> >>)
      [] name = "h.maf" -> Unreadable
      [] name = "big.maf" ->
            Table(<<"Hugo_Symbol", "Variant_Classification">>, BigRows(11))
      [] OTHER -> Table(<<"text">>, <<>>)

\* The last component of a path is the entry's name.
FileOf(path) == path[Len(path)]

Parsed(path) == Content(FileOf(path))

(***************************************************************************)
(* File readers (both scripts, identical).                                 *)
(***************************************************************************)
\* read_cnv_file: the table, or None when pd.read_csv raises.
read_cnv_file(path) == IF Content(FileOf(path)).ok THEN path ELSE None

\* read_maf_file: comment lines dropped, then the table, or None on any raise.
read_maf_file(path) == IF Content(FileOf(path)).ok THEN path ELSE None

RECURSIVE FirstSegCol(_, _)
FirstSegCol(cols, i) ==
    IF i > Len(cols) THEN NoColumn
    ELSE IF Lower(cols[i]) \in {"segment_mean", "segmentmean"} THEN cols[i]
    ELSE FirstSegCol(cols, i + 1)

\* get_segment_mean_column: first column whose lower-cased name matches.
get_segment_mean_column(df) == FirstSegCol(Parsed(df).columns, 1)

\* df[col].tolist()
ColumnList(df, col) ==
    LET t == Parsed(df)
        j == IndexOf(t.columns, col)
    IN  [i \in DOMAIN t.rows |-> t.rows[i][j]]

\* The if / elif on the file name in process_stage.
Classify(file) ==
    IF Contains(file, "Copy_Number_Variation") THEN "cnv"
    ELSE IF Contains(file, "Simple_Nucleotide_Variation") \/ EndsWith(file, ".maf")
    THEN "maf"
    ELSE "other"

(***************************************************************************)
(* The directory tree.  A path of length 1 is an entry of BASE_FOLDER, of  *)
(* length 2 an entry of a stage folder, of length 3 an entry of a sample   *)
(* folder.  An entry is a directory when some path goes through it.        *)
(***************************************************************************)
\* os.path.isdir(path)
IsDir(path) == \E q \in fs : Len(q) > Len(path) /\ SubSeq(q, 1, Len(path)) = path

\* os.listdir(path), as the set of names (the order is not defined)
ListDir(path) ==
    {q[Len(path) + 1] : q \in {r \in fs : Len(r) > Len(path) /\ SubSeq(r, 1, Len(path)) = path}}

(***************************************************************************)
(* process_stage: the body of the inner loop, for one file of the sample.  *)
(***************************************************************************)
EmptyStageData ==
    [cnv_segment_means |-> <<>>, snp_data |-> <<>>,
     cnv_segment_means_by_sample |-> <<>>, snp_data_by_sample |-> <<>>]

\* Mutant: the stage-wide list is assigned, not extended.
StageDataAfterFile_Overwrite(v, sd, sample_folder, file_path) ==
    LET file == FileOf(file_path) IN
    IF Classify(file) = "cnv" THEN
        LET cnv_df == read_cnv_file(file_path) IN
        IF cnv_df # None /\ get_segment_mean_column(cnv_df) # NoColumn THEN
            LET segment_means == ColumnList(cnv_df, get_segment_mean_column(cnv_df)) IN
            [sd EXCEPT
                !.cnv_segment_means = segment_means,
                !.cnv_segment_means_by_sample =
                    IF v = "overall" THEN DictExtend(@, sample_folder, segment_means) ELSE @]
        ELSE sd
    ELSE IF Classify(file) = "maf" THEN
        LET snp_df == read_maf_file(file_path) IN
        IF snp_df # None THEN
            [sd EXCEPT
                !.snp_data = Append(@, snp_df),
                !.snp_data_by_sample =
                    IF v = "overall" THEN DictExtend(@, sample_folder, <<snp_df>>) ELSE @]
        ELSE sd
    ELSE sd

\* Mutant: a failed read drops what the stage has accumulated.
StageDataAfterFile_ResetOnFailure(v, sd, sample_folder, file_path) ==
    LET file == FileOf(file_path) IN
    IF Classify(file) = "cnv" THEN
        LET cnv_df == read_cnv_file(file_path) IN
        IF cnv_df = None THEN EmptyStageData
        ELSE IF get_segment_mean_column(cnv_df) # NoColumn THEN
            LET segment_means == ColumnList(cnv_df, get_segment_mean_column(cnv_df)) IN
            [sd EXCEPT
                !.cnv_segment_means = @ \o segment_means,
                !.cnv_segment_means_by_sample =
                    IF v = "overall" THEN DictExtend(@, sample_folder, segment_means) ELSE @]
        ELSE sd
    ELSE IF Classify(file) = "maf" THEN
        LET snp_df == read_maf_file(file_path) IN
        IF snp_df # None THEN
            [sd EXCEPT
                !.snp_data = Append(@, snp_df),
                !.snp_data_by_sample =
                    IF v = "overall" THEN DictExtend(@, sample_folder, <<snp_df>>) ELSE @]
        ELSE EmptyStageData
    ELSE sd

\* stage_data after the loop body ran for file_path of sample_folder.
StageDataAfterFile(v, sd, sample_folder, file_path) ==
    LET file == FileOf(file_path) IN
    IF Classify(file) = "cnv" THEN
        LET cnv_df == read_cnv_file(file_path) IN
        IF cnv_df # None /\ get_segment_mean_column(cnv_df) # NoColumn THEN
            LET segment_means == ColumnList(cnv_df, get_segment_mean_column(cnv_df)) IN
            [sd EXCEPT
                !.cnv_segment_means = @ \o segment_means,
                !.cnv_segment_means_by_sample =
                    IF v = "overall" THEN DictExtend(@, sample_folder, segment_means) ELSE @]
        ELSE sd
    ELSE IF Classify(file) = "maf" THEN
        LET snp_df == read_maf_file(file_path) IN
        IF snp_df # None THEN
            [sd EXCEPT
                !.snp_data = Append(@, snp_df),
                !.snp_data_by_sample =
                    IF v = "overall" THEN DictExtend(@, sample_folder, <<snp_df>>) ELSE @]
        ELSE sd
    ELSE sd

\* log_failed_file: append one line to FAILED_FILES_LOG.
log_failed_file(lg, file_path, reason) == Append(lg, <<file_path, reason>>)

\* The failure log after the loop body ran for file_path: only the overall
\* script has the else branch that logs a missing segment-mean column.
LogAfterFile(v, lg, file_path) ==
    IF /\ v = "overall"
       /\ Classify(FileOf(file_path)) = "cnv"
       /\ read_cnv_file(file_path) # None
       /\ get_segment_mean_column(read_cnv_file(file_path)) = NoColumn
    THEN log_failed_file(lg, file_path, "Missing Segment Mean column")
    ELSE lg

(***************************************************************************)
(* Summaries.                                                              *)
(***************************************************************************)
\* head(10)
TopN == 10

RECURSIVE SeqSum(_)
SeqSum(s) == IF s = <<>> THEN 0 ELSE Head(s) + SeqSum(Tail(s))

\* pd.Series(values).describe(): count, min and max as they are; the mean is
\* sum / count, kept as its numerator; std and the quartiles are not integers
\* and are left out.
Describe(values) ==
    [count |-> Len(values),
     sum   |-> SeqSum(values),
     min   |-> CHOOSE x \in Range(values) : \A y \in Range(values) : x <= y,
     max   |-> CHOOSE x \in Range(values) : \A y \in Range(values) : x >= y]

\* Mutant: the columns of the first table only, not the union.
UnionColumns_FirstOnly(cols, dfs) ==
    IF dfs = <<>> THEN cols ELSE Parsed(Head(dfs)).columns

RECURSIVE UnionColumns(_, _)
\* Columns of pd.concat (outer join): the union, in order of first appearance.
UnionColumns(cols, dfs) ==
    IF dfs = <<>> THEN cols
    ELSE LET new == SelectSeq(Parsed(Head(dfs)).columns, LAMBDA c : c \notin Range(cols))
         IN  UnionColumns(cols \o new, Tail(dfs))

RECURSIVE ConcatRows(_, _)
\* Rows of pd.concat: each table's rows, a missing field becoming NaN.
ConcatRows(cols, dfs) ==
    IF dfs = <<>> THEN <<>>
    ELSE LET t == Parsed(Head(dfs))
             widen(row) == [j \in DOMAIN cols |->
                               IF cols[j] \in Range(t.columns)
                               THEN row[IndexOf(t.columns, cols[j])] ELSE NaN]
         IN  [i \in DOMAIN t.rows |-> widen(t.rows[i])] \o ConcatRows(cols, Tail(dfs))

\* pd.concat(dfs, ignore_index=True)
Concat(dfs) ==
    LET cols == UnionColumns(<<>>, dfs)
    IN  [columns |-> cols, rows |-> ConcatRows(cols, dfs)]

\* combined[col] raises KeyError when the column is absent.
HasColumn(t, col) == col \in Range(t.columns)

TableColumn(t, col) ==
    LET j == IndexOf(t.columns, col) IN [i \in DOMAIN t.rows |-> t.rows[i][j]]

CountOf(values, k) == Cardinality({i \in DOMAIN values : values[i] = k})

RECURSIVE SortedOrders(_, _)
\* Every arrangement of keys in non-increasing order of count.
SortedOrders(values, keys) ==
    IF keys = {} THEN {<<>>}
    ELSE LET top == {k \in keys : \A o \in keys : CountOf(values, k) >= CountOf(values, o)}
         IN  UNION {{<<<<k, CountOf(values, k)>>>> \o rest :
                       rest \in SortedOrders(values, keys \ {k})} : k \in top}

\* Mutant: the counts are not sorted (keys in order of first appearance).
ValueCounts_Unsorted(values) ==
    LET keys == Range(values) \ {NaN}
        firstAt(k) == CHOOSE i \in DOMAIN values : values[i] = k /\ \A j \in 1..(i - 1) : values[j] # k
        RECURSIVE InOrder(_)
        InOrder(ks) ==
            IF ks = {} THEN <<>>
            ELSE LET k == CHOOSE x \in ks : \A y \in ks : firstAt(x) <= firstAt(y)
                 IN  <<<<k, CountOf(values, k)>>>> \o InOrder(ks \ {k})
    IN  {InOrder(keys)}

\* Series.value_counts(): NaN is dropped, the keys are counted and the counts
\* sorted in descending order with the default sort kind, quicksort, which is
\* not stable: the relative order of keys of equal count is not defined.
ValueCounts(values) == SortedOrders(values, Range(values) \ {NaN})

\* Series.head(n)
HeadN(s, n) == SubSeq(s, 1, Min2(n, Len(s)))

\* The mutation part of both summaries, from the tables to concatenate: the
\* set of possible outcomes [tables, error], tables being the <<name, table>>
\* pairs produced, in order, before the function ended.
MutationSummaries(dfs) ==
    LET combined == Concat(dfs) IN
    IF ~HasColumn(combined, "Hugo_Symbol")
    THEN {[tables |-> <<>>, error |-> "KeyError"]}
    ELSE LET genes == TableColumn(combined, "Hugo_Symbol") IN
         IF ~HasColumn(combined, "Variant_Classification")
         THEN {[tables |-> << <<"Top_Mutated_Genes", HeadN(top, TopN)>> >>,
                error  |-> "KeyError"] : top \in ValueCounts(genes)}
         ELSE {[tables |-> << <<"Top_Mutated_Genes", HeadN(top, TopN)>>,
                              <<"Mutation_Classification", cls>> >>,
                error  |-> "none"] :
                  top \in ValueCounts(genes),
                  cls \in ValueCounts(TableColumn(combined, "Variant_Classification"))}

\* Mutant: the statistics sheet is produced without the emptiness test.
CnvSummary_Always(values) ==
    << <<"CNV_Segment_Stats", [count |-> Len(values), sum |-> SeqSum(values)]>> >>

\* The segment-mean part of both summaries.
CnvSummary(values) ==
    IF values # <<>> THEN << <<"CNV_Segment_Stats", Describe(values)>> >> ELSE <<>>

\* Mutant: the mutation tables are produced without the emptiness test.
create_stage_summary_NoGuard(sd) ==
    LET cnv == CnvSummary(sd.cnv_segment_means) IN
    IF sd.snp_data # <<>>
    THEN {[summary |-> cnv \o m.tables, error |-> m.error] :
             m \in MutationSummaries(sd.snp_data)}
    ELSE {[summary |-> cnv \o << <<"Top_Mutated_Genes", <<>> >>,
                                 <<"Mutation_Classification", <<>> >> >>,
           error |-> "none"]}

\* create_stage_summary (per-stage script): the possible outcomes
\* [summary, error]; with error "KeyError" nothing is returned.
create_stage_summary(sd) ==
    LET cnv == CnvSummary(sd.cnv_segment_means) IN
    IF sd.snp_data # <<>>
    THEN {[summary |-> cnv \o m.tables, error |-> m.error] :
             m \in MutationSummaries(sd.snp_data)}
    ELSE {[summary |-> cnv, error |-> "none"]}

(***************************************************************************)
(* Export.                                                                 *)
(***************************************************************************)
\* Excel's limit on a sheet name
SheetNameLimit == 31
\* Characters kept before the '...'
KeptChars == 28

\* Mutant: the title is cut at the limit, then the '...' is appended.
SheetTitle_CutAtLimit(stg, sheet_name) ==
    LET sheet_title == stg \o "_" \o sheet_name IN
    IF Len(sheet_title) > SheetNameLimit
    THEN Prefix(sheet_title, SheetNameLimit) \o "..."
    ELSE sheet_title

\* The sheet title of save_summaries_to_excel.
SheetTitle(stg, sheet_name) ==
    LET sheet_title == stg \o "_" \o sheet_name IN
    IF Len(sheet_title) > SheetNameLimit
    THEN Prefix(sheet_title, KeptChars) \o "..."
    ELSE sheet_title

RECURSIVE SummarySheets(_, _)
\* The inner loop of save_summaries_to_excel: one to_excel per table.
SummarySheets(stg, summaries) ==
    IF summaries = <<>> THEN <<>>
    ELSE << [title |-> SheetTitle(stg, Head(summaries)[1]), stage |-> stg,
             name |-> Head(summaries)[1], df |-> Head(summaries)[2]] >>
         \o SummarySheets(stg, Tail(summaries))

RECURSIVE save_summaries_to_excel(_)
\* save_summaries_to_excel (per-stage script): the to_excel calls, in order.
save_summaries_to_excel(summaries) ==
    IF summaries = <<>> THEN <<>>
    ELSE SummarySheets(Head(summaries)[1], Head(summaries)[2])
         \o save_summaries_to_excel(Tail(summaries))

\* save_summary_to_excel (overall script): the possible outcomes
\* [sheets, error]; a sheet written before a KeyError stays written.
save_summary_to_excel(cnv_segment_means, snp_data_by_sample) ==
    LET sheet(t) == [title |-> t[1], stage |-> "", name |-> t[1], df |-> t[2]]
        cnv == CnvSummary(cnv_segment_means)
        out(tables, err) ==
            [sheets |-> [i \in DOMAIN tables |-> sheet(tables[i])], error |-> err]
    IN  IF snp_data_by_sample # <<>>
        THEN {out(cnv \o m.tables, m.error) :
                 m \in MutationSummaries(Flatten(snp_data_by_sample))}
        ELSE {out(cnv, "none")}

(***************************************************************************)
(* Initial states: the tree the run is started on, the script that runs    *)
(* and the failure log an earlier run may have left.                       *)
(***************************************************************************)
SampleDirs == { <<"I", "S1">>, <<"I", "S2">>, <<"IIA", "S1">> }

\* Entries a tree is built from: files of sample folders, a non-directory
\* entry of BASE_FOLDER and non-directory entries of the stage folders.
EntryPool ==
    {<<d[1], d[2], f>> : d \in SampleDirs, f \in FileNames}
        \cup { <<"notes.txt">> }
        \cup { <<"I", "x.Copy_Number_Variation.txt">>, <<"IIA", "y.maf">> }

RECURSIVE SubsetsUpTo(_, _)
SubsetsUpTo(S, n) ==
    IF n = 0 THEN {{}}
    ELSE LET smaller == SubsetsUpTo(S, n - 1)
         IN  smaller \cup {T \cup {x} : T \in smaller, x \in S}

\* What an earlier run on the same folders may have left in the log.
StaleLog ==
    << << <<"I", "S1", "c.Copy_Number_Variation.tsv">>, "Missing Segment Mean column" >>,
       << <<"I", "S9", "c.Copy_Number_Variation.tsv">>, "Missing Segment Mean column" >> >>

InitRest ==
    /\ pc = "start"
    /\ todoBase = {}
    /\ stage = ""
    /\ todoStage = {}
    /\ sample = ""
    /\ todoFiles = {}
    /\ stage_data = EmptyStageData
    /\ all_cnv_segment_means = <<>>
    /\ all_snp_data_by_sample = <<>>
    /\ stage_summaries = <<>>
    /\ sheets = <<>>
    /\ error = "none"

Init ==
    /\ variant \in {"per_stage", "overall"}
    /\ fs \in SubsetsUpTo(EntryPool, MaxEntries)
    /\ log \in {<<>>, StaleLog}
    /\ InitRest

\* Stage folder names of 1 to MaxStageLen characters, two of them of the
\* greatest length and differing in the last character only.
StageNames ==
    {RepeatStr("s", n) \o "A" : n \in 0..(MaxStageLen - 1)}
        \cup {RepeatStr("s", MaxStageLen - 1) \o "B"}

\* The per-stage script on up to MaxExportStages stage folders of these names,
\* each with one sample holding a CNV file and a mutation file.
InitExport ==
    /\ variant = "per_stage"
    /\ \E names \in SubsetsUpTo(StageNames, MaxExportStages) :
          /\ names # {}
          /\ fs = {<<n, "S1", f>> : n \in names,
                       f \in {"a.Copy_Number_Variation.seg.txt",
                              "e.Simple_Nucleotide_Variation.maf.txt"}}
    /\ log = <<>>
    /\ InitRest

(***************************************************************************)
(* main and process_stage, one step at a time.                             *)
(***************************************************************************)
\* Mutant: the log of an earlier run is kept.
RemoveOldLog_Kept(lg) == lg

\* overall main: FAILED_FILES_LOG is removed when it exists, so the log of
\* this run starts empty.
RemoveOldLog(lg) == <<>>

\* main, up to the loop over os.listdir(BASE_FOLDER).
MainStart ==
    /\ pc = "start"
    /\ IF variant = "overall"
       THEN /\ log' = RemoveOldLog(log)
            /\ all_cnv_segment_means' = <<>>
            /\ all_snp_data_by_sample' = <<>>
            /\ UNCHANGED stage_summaries
       ELSE /\ stage_summaries' = <<>>
            /\ UNCHANGED <<log, all_cnv_segment_means, all_snp_data_by_sample>>
    /\ todoBase' = ListDir(<<>>)
    /\ pc' = "stages"
    /\ UNCHANGED <<variant, fs, stage, todoStage, sample, todoFiles, stage_data,
                   sheets, error>>

\* main: the next entry of BASE_FOLDER; a directory starts process_stage.
MainNextStage ==
    /\ pc = "stages"
    /\ \E e \in todoBase :
          /\ todoBase' = todoBase \ {e}
          /\ stage' = e
          /\ IF IsDir(<<e>>)
             THEN /\ stage_data' = EmptyStageData
                  /\ todoStage' = ListDir(<<e>>)
                  /\ pc' = "samples"
             ELSE UNCHANGED <<stage_data, todoStage, pc>>
    /\ UNCHANGED <<variant, fs, log, sample, todoFiles, all_cnv_segment_means,
                   all_snp_data_by_sample, stage_summaries, sheets, error>>

\* process_stage: the next entry of the stage folder.
ProcessNextSample ==
    /\ pc = "samples"
    /\ \E e \in todoStage :
          /\ todoStage' = todoStage \ {e}
          /\ sample' = e
          /\ IF IsDir(<<stage, e>>)
             THEN /\ todoFiles' = ListDir(<<stage, e>>)
                  /\ pc' = "files"
             ELSE UNCHANGED <<todoFiles, pc>>
    /\ UNCHANGED <<variant, fs, log, todoBase, stage, stage_data,
                   all_cnv_segment_means, all_snp_data_by_sample, stage_summaries,
                   sheets, error>>

\* process_stage: the next file of the sample folder.
ProcessFile ==
    /\ pc = "files"
    /\ \E file \in todoFiles :
          LET file_path == <<stage, sample, file>> IN
          /\ todoFiles' = todoFiles \ {file}
          /\ stage_data' = StageDataAfterFile(variant, stage_data, sample, file_path)
          /\ log' = LogAfterFile(variant, log, file_path)
    /\ UNCHANGED <<variant, fs, pc, todoBase, stage, todoStage, sample,
                   all_cnv_segment_means, all_snp_data_by_sample, stage_summaries,
                   sheets, error>>

\* process_stage: the sample folder is exhausted.
ProcessSampleEnd ==
    /\ pc = "files"
    /\ todoFiles = {}
    /\ pc' = "samples"
    /\ UNCHANGED <<variant, fs, log, todoBase, stage, todoStage, sample, todoFiles,
                   stage_data, all_cnv_segment_means, all_snp_data_by_sample,
                   stage_summaries, sheets, error>>

RECURSIVE MergeBySample_Overwrite(_, _)
\* Mutant: a sample's list is replaced by the stage's, not extended.
MergeBySample_Overwrite(all, by_sample) ==
    IF by_sample = <<>> THEN all
    ELSE MergeBySample_Overwrite(DictSet(all, Head(by_sample)[1], Head(by_sample)[2]),
                                 Tail(by_sample))

\* overall main: all_snp_data_by_sample[sample].extend(snp_dfs) for each item
RECURSIVE MergeBySample(_, _)
MergeBySample(all, by_sample) ==
    IF by_sample = <<>> THEN all
    ELSE MergeBySample(DictExtend(all, Head(by_sample)[1], Head(by_sample)[2]),
                       Tail(by_sample))

\* process_stage returns; main summarises the stage (per-stage script) or
\* merges it into the overall accumulators (overall script).
StageReturn ==
    /\ pc = "samples"
    /\ todoStage = {}
    /\ IF variant = "per_stage"
       THEN /\ \E r \in create_stage_summary(stage_data) :
                  IF r.error = "none"
                  THEN /\ stage_summaries' = DictSet(stage_summaries, stage, r.summary)
                       /\ pc' = "stages"
                       /\ UNCHANGED error
                  ELSE /\ error' = r.error
                       /\ pc' = "failed"
                       /\ UNCHANGED stage_summaries
            /\ UNCHANGED <<all_cnv_segment_means, all_snp_data_by_sample>>
       ELSE /\ all_cnv_segment_means' =
                   all_cnv_segment_means \o stage_data.cnv_segment_means
            /\ all_snp_data_by_sample' =
                   MergeBySample(all_snp_data_by_sample, stage_data.snp_data_by_sample)
            /\ pc' = "stages"
            /\ UNCHANGED <<stage_summaries, error>>
    /\ UNCHANGED <<variant, fs, log, todoBase, stage, todoStage, sample, todoFiles,
                   stage_data, sheets>>

\* main after the loop: the export.
MainExport ==
    /\ pc = "stages"
    /\ todoBase = {}
    /\ IF variant = "per_stage"
       THEN /\ sheets' = save_summaries_to_excel(stage_summaries)
            /\ pc' = "done"
            /\ UNCHANGED error
       ELSE \E r \in save_summary_to_excel(all_cnv_segment_means, all_snp_data_by_sample) :
                /\ sheets' = r.sheets
                /\ error' = r.error
                /\ pc' = IF r.error = "none" THEN "done" ELSE "failed"
    /\ UNCHANGED <<variant, fs, log, todoBase, stage, todoStage, sample, todoFiles,
                   stage_data, all_cnv_segment_means, all_snp_data_by_sample,
                   stage_summaries>>

Next ==
    \/ MainStart
    \/ MainNextStage
    \/ ProcessNextSample
    \/ ProcessFile
    \/ ProcessSampleEnd
    \/ StageReturn
    \/ MainExport

Spec == Init /\ [][Next]_vars

SpecExport == InitExport /\ [][Next]_vars

(***************************************************************************)
(* What the tree holds, read off the tree itself.                          *)
(***************************************************************************)
StageDirs == {e \in ListDir(<<>>) : IsDir(<<e>>)}

\* Files of the sample folders of a stage.
SampleFiles(stg) == {p \in fs : Len(p) = 3 /\ p[1] = stg}

HasSegmentColumn(p) ==
    \E c \in Range(Content(p[3]).columns) : Lower(c) \in {"segment_mean", "segmentmean"}

\* CNV-classified files that read successfully and have a segment-mean column.
CnvContributors(stg) ==
    {p \in SampleFiles(stg) :
        /\ Contains(p[3], "Copy_Number_Variation")
        /\ Content(p[3]).ok
        /\ HasSegmentColumn(p)}

\* CNV-classified files that read successfully and have no such column.
MissingColumnFiles ==
    {p \in fs : /\ Len(p) = 3
                /\ Contains(p[3], "Copy_Number_Variation")
                /\ Content(p[3]).ok
                /\ ~HasSegmentColumn(p)}

\* Files of a stage that are read as mutation files and parse.
MafTables(stg) ==
    {p \in SampleFiles(stg) :
        /\ ~Contains(p[3], "Copy_Number_Variation")
        /\ Contains(p[3], "Simple_Nucleotide_Variation") \/ EndsWith(p[3], ".maf")
        /\ Content(p[3]).ok}

\* Files whose reader returns None.
ReadFails(p) ==
    /\ \/ Contains(p[3], "Copy_Number_Variation")
       \/ Contains(p[3], "Simple_Nucleotide_Variation")
       \/ EndsWith(p[3], ".maf")
    /\ ~Content(p[3]).ok

SegValues(p) == ColumnList(p, get_segment_mean_column(p))

RECURSIVE SumOver(_, _)
\* Sum of f[x] over the x of S.
SumOver(S, f) ==
    IF S = {} THEN 0
    ELSE LET x == CHOOSE y \in S : TRUE IN f[x] + SumOver(S \ {x}, f)

Occurrences(s, x) == Cardinality({i \in DOMAIN s : s[i] = x})

\* process_stage is at its return statement.
AtReturn == pc = "samples" /\ todoStage = {}

SheetTitles == [i \in DOMAIN sheets |-> sheets[i].title]

(***************************************************************************)
(* C1: every sheet title written by save_summaries_to_excel is at most 31  *)
(* characters long: stage + '_' + table name unchanged when that is 31     *)
(* characters or fewer, else its first 28 characters followed by '...'.    *)
(***************************************************************************)
C1_TitleAtMost31 ==
    \A i \in DOMAIN sheets :
        LET full == sheets[i].stage \o "_" \o sheets[i].name
            t == sheets[i].title
        IN  /\ Len(t) <= 31
            /\ Len(full) <= 31 => t = full
            /\ Len(full) > 31 =>
                  /\ Len(t) = 31
                  /\ SubSeq(t, 1, 28) = SubSeq(full, 1, 28)
                  /\ SubSeq(t, 29, 31) = "..."

\* A title of 35 characters was cut to 31 and another was written unchanged.
C1_Witness ==
    /\ pc = "done"
    /\ \E i \in DOMAIN sheets :
          /\ Len(sheets[i].stage \o "_" \o sheets[i].name) = 35
          /\ Len(sheets[i].title) = 31
    /\ \E i \in DOMAIN sheets :
          /\ Len(sheets[i].stage \o "_" \o sheets[i].name) = 31
          /\ sheets[i].title = sheets[i].stage \o "_" \o sheets[i].name

(***************************************************************************)
(* C7: the sheet titles of the per-stage export are unique after           *)
(* truncation: two different (stage, table name) pairs never get the same  *)
(* title.                                                                  *)
(***************************************************************************)
C7_TitlesUnique ==
    \A i, j \in DOMAIN sheets :
        <<sheets[i].stage, sheets[i].name>> # <<sheets[j].stage, sheets[j].name>>
            => sheets[i].title # sheets[j].title

(***************************************************************************)
(* C2: when process_stage returns, the stage-wide segment-mean sequence    *)
(* has length k_1 + ... + k_N over the stage's CNV-classified files that   *)
(* read and have a segment-mean column, and holds exactly their values as  *)
(* a multiset, whatever the order of enumeration; nothing else             *)
(* contributes.                                                            *)
(***************************************************************************)
C2_SegmentMeansSum ==
    AtReturn =>
        LET acc == stage_data.cnv_segment_means
            rowsOf == [p \in CnvContributors(stage) |-> Len(Content(p[3]).rows)]
        IN  /\ Len(acc) = SumOver(CnvContributors(stage), rowsOf)
            /\ \A v \in Range(acc) \cup UNION {Range(SegValues(p)) : p \in CnvContributors(stage)} :
                  LET occ == [p \in CnvContributors(stage) |-> Occurrences(SegValues(p), v)]
                  IN  Occurrences(acc, v) = SumOver(CnvContributors(stage), occ)

\* A stage with two contributing CNV files has been walked.
C2_Witness ==
    /\ AtReturn
    /\ Cardinality(CnvContributors(stage)) >= 2
    /\ Len(stage_data.cnv_segment_means) = 3

\* The two parts of C3: the step on a file whose read fails, and the return.
C3_FailedReadStep ==
    \A f \in todoFiles \ todoFiles' :
        (pc = "files" /\ ReadFails(<<stage, sample, f>>)) =>
            /\ stage_data' = stage_data
            /\ all_cnv_segment_means' = all_cnv_segment_means
            /\ all_snp_data_by_sample' = all_snp_data_by_sample
            /\ stage_summaries' = stage_summaries
            /\ log' = log
            /\ error' = "none"
            /\ pc' = "files"

C3_AllReadableContribute ==
    AtReturn =>
        /\ error = "none"
        /\ \A p \in MafTables(stage) : Occurrences(stage_data.snp_data, p) = 1
        /\ \A p \in CnvContributors(stage) :
              \E i \in 1..Len(stage_data.cnv_segment_means) :
                  SubSeq(stage_data.cnv_segment_means, i, i + Len(SegValues(p)) - 1)
                      = SegValues(p)

(***************************************************************************)
(* C3: a file whose read fails raises nothing in process_stage, leaves the *)
(* accumulators (and the log) as they were, and the walk goes on: at the   *)
(* return every readable file of the stage has contributed.                *)
(***************************************************************************)
C3_ReadFailureSkipped == [][C3_FailedReadStep]_vars /\ []C3_AllReadableContribute

\* A read has failed in the sample being walked, nothing was accumulated, and
\* a readable file of the same sample is still to come.
C3_Witness ==
    /\ pc = "files"
    /\ \E f \in ListDir(<<stage, sample>>) \ todoFiles : ReadFails(<<stage, sample, f>>)
    /\ \E f \in todoFiles :
          <<stage, sample, f>> \in MafTables(stage) \cup CnvContributors(stage)
    /\ stage_data = EmptyStageData
    /\ error = "none"

(***************************************************************************)
(* Helpers of the claims on the mutation tables.                           *)
(***************************************************************************)
RECURSIVE FieldOf(_, _)
\* The values of one field over the rows of the tables, in order; NaN for
\* the rows of a table without the field.
FieldOf(dfs, col) ==
    IF dfs = <<>> THEN <<>>
    ELSE LET t == Content(Head(dfs)[3])
         IN  (IF col \in Range(t.columns)
              THEN [i \in DOMAIN t.rows |-> t.rows[i][IndexOf(t.columns, col)]]
              ELSE [i \in DOMAIN t.rows |-> NaN])
             \o FieldOf(Tail(dfs), col)

SomeHas(paths, col) == \E p \in paths : col \in Range(Content(p[3]).columns)

\* The table of a summary (a sequence of <<name, table>>) under a name.
HasTable(summary, name) == \E i \in DOMAIN summary : summary[i][1] = name

TableOf(summary, name) == summary[CHOOSE i \in DOMAIN summary : summary[i][1] = name][2]

\* The stage just summarised by the per-stage script.
StageSummarised ==
    variant = "per_stage" /\ pc = "stages" /\ stage \in DictKeys(stage_summaries)

\* The export of the overall script has run (to its end or to an error).
OverallExported == variant = "overall" /\ pc \in {"done", "failed"}

FirstIndex(s, x) == CHOOSE i \in DOMAIN s : s[i] = x /\ \A j \in 1..(i - 1) : s[j] # x

\* top lists min(10, distinct) genes with exact counts, in non-increasing
\* order of count, none twice, each at least as frequent as any unlisted gene.
TopGenesOk(top, genes) ==
    LET distinct == Range(genes) \ {NaN}
        listed == {top[i][1] : i \in DOMAIN top}
    IN  /\ Len(top) = (IF Cardinality(distinct) < 10 THEN Cardinality(distinct) ELSE 10)
        /\ \A i \in DOMAIN top :
              /\ top[i][1] \in distinct
              /\ top[i][2] = Occurrences(genes, top[i][1])
              /\ \A g \in distinct \ listed : top[i][2] >= Occurrences(genes, g)
        /\ \A i, j \in DOMAIN top :
              i < j => top[i][2] >= top[j][2] /\ top[i][1] # top[j][1]

\* Genes of equal count come in the order of their first row.
TiesFirstSeen(top, genes) ==
    LET listed == {top[i][1] : i \in DOMAIN top} IN
    /\ \A i, j \in DOMAIN top :
          (i < j /\ top[i][2] = top[j][2])
              => FirstIndex(genes, top[i][1]) < FirstIndex(genes, top[j][1])
    /\ \A i \in DOMAIN top : \A g \in (Range(genes) \ {NaN}) \ listed :
          top[i][2] = Occurrences(genes, g)
              => FirstIndex(genes, top[i][1]) < FirstIndex(genes, g)

\* P holds of every Top_Mutated_Genes table in sight and the gene field of
\* the rows it was computed from.
ForTopTables(P(_, _)) ==
    /\ (StageSummarised /\ HasTable(DictGet(stage_summaries, stage), "Top_Mutated_Genes"))
          => P(TableOf(DictGet(stage_summaries, stage), "Top_Mutated_Genes"),
               FieldOf(stage_data.snp_data, "Hugo_Symbol"))
    /\ OverallExported =>
          \A i \in DOMAIN sheets :
              sheets[i].name = "Top_Mutated_Genes"
                  => P(sheets[i].df,
                       FieldOf(Flatten(all_snp_data_by_sample), "Hugo_Symbol"))

(***************************************************************************)
(* C4 as stated: Top_Mutated_Genes lists min(10, distinct) genes with      *)
(* their exact row counts over the concatenated tables, in non-increasing  *)
(* order of count, each listed gene at least as frequent as any unlisted   *)
(* one, and genes of equal count in first-encountered order.               *)
(***************************************************************************)
C4_TopGenesFirstSeenTies ==
    LET P(top, genes) == TopGenesOk(top, genes) /\ TiesFirstSeen(top, genes)
    IN  ForTopTables(P)

(***************************************************************************)
(* C4 amended: as C4, without the order among genes of equal count, which  *)
(* value_counts leaves to an unstable sort.                                *)
(***************************************************************************)
C4_TopGenes == ForTopTables(TopGenesOk)

\* Eleven distinct genes were cut to ten, the two rarest tying at the cut,
\* and the one kept is not the one seen first.
C4_Witness ==
    /\ StageSummarised
    /\ HasTable(DictGet(stage_summaries, stage), "Top_Mutated_Genes")
    /\ LET top == TableOf(DictGet(stage_summaries, stage), "Top_Mutated_Genes")
           genes == FieldOf(stage_data.snp_data, "Hugo_Symbol")
       IN  /\ Cardinality(Range(genes) \ {NaN}) = 11
           /\ Len(top) = 10
           /\ top[10] = <<"G10", 1>>
           /\ FirstIndex(genes, "G11") < FirstIndex(genes, "G10")

(***************************************************************************)
(* C5: at the end of a run of the overall script the failure log holds     *)
(* exactly one record (path, "Missing Segment Mean column") for each       *)
(* CNV-classified file that read but has no segment-mean column, and       *)
(* nothing else; the per-stage script never appends to the log.            *)
(***************************************************************************)
C5_FailureLog ==
    /\ OverallExported =>
          /\ \A p \in MissingColumnFiles :
                Occurrences(log, <<p, "Missing Segment Mean column">>) = 1
          /\ \A i \in DOMAIN log :
                log[i][1] \in MissingColumnFiles /\ log[i][2] = "Missing Segment Mean column"
    /\ variant = "per_stage" => log \in {<<>>, StaleLog}

\* The overall script ended on a tree with a file lacking the column (logged),
\* a CNV file whose read failed and no other record in the log.
C5_Witness ==
    /\ variant = "overall"
    /\ pc = "done"
    /\ MissingColumnFiles # {}
    /\ \E p \in fs : Len(p) = 3 /\ ReadFails(p)
    /\ Len(log) = 1

(***************************************************************************)
(* C6 as stated: the overall script writes exactly the three sheets        *)
(* CNV_Segment_Stats, Top_Mutated_Genes and Mutation_Classification on     *)
(* every run.                                                              *)
(***************************************************************************)
C6_AlwaysThreeSheets ==
    (variant = "overall" /\ pc = "done") =>
        SheetTitles = <<"CNV_Segment_Stats", "Top_Mutated_Genes", "Mutation_Classification">>

(***************************************************************************)
(* C6 amended: the overall script writes CNV_Segment_Stats exactly when    *)
(* the merged segment means are non-empty, and Top_Mutated_Genes and       *)
(* Mutation_Classification exactly when a mutation table was merged; a run *)
(* ended by a key-not-found error has written the sheets before it.        *)
(***************************************************************************)
C6_SheetsFollowData ==
    LET expected ==
            (IF all_cnv_segment_means # <<>> THEN <<"CNV_Segment_Stats">> ELSE <<>>)
            \o (IF all_snp_data_by_sample # <<>>
                THEN <<"Top_Mutated_Genes", "Mutation_Classification">> ELSE <<>>)
    IN  /\ (variant = "overall" /\ pc = "done") => SheetTitles = expected
        /\ (variant = "overall" /\ pc = "failed") =>
              /\ Len(SheetTitles) < Len(expected)
              /\ SheetTitles = SubSeq(expected, 1, Len(SheetTitles))

\* The overall script ended with mutation tables and no segment mean: two sheets.
C6_Witness ==
    /\ variant = "overall"
    /\ pc = "done"
    /\ all_cnv_segment_means = <<>>
    /\ SheetTitles = <<"Top_Mutated_Genes", "Mutation_Classification">>

\* Columns of the parsed mutation files.
HasBoth(p) ==
    {"Hugo_Symbol", "Variant_Classification"} \subseteq Range(Content(p[3]).columns)

AllMafTables == UNION {MafTables(stg) : stg \in StageDirs}

(***************************************************************************)
(* C8 as stated: any parsed mutation file without both Hugo_Symbol and     *)
(* Variant_Classification makes the summarization fail, whatever is        *)
(* aggregated with it: no summary is ever made of such a file.             *)
(***************************************************************************)
C8_AnyLackingFileFails ==
    /\ variant = "per_stage" =>
          \A stg \in DictKeys(stage_summaries) : \A p \in MafTables(stg) : HasBoth(p)
    /\ (variant = "overall" /\ pc = "done") => \A p \in AllMafTables : HasBoth(p)

\* A group of tables on which the column lookups raise KeyError.
GroupFails(paths) ==
    /\ paths # {}
    /\ ~SomeHas(paths, "Hugo_Symbol") \/ ~SomeHas(paths, "Variant_Classification")

(***************************************************************************)
(* C8 amended: the summarization fails with key-not-found exactly when the *)
(* mutation tables aggregated together (a stage's in the per-stage script, *)
(* the run's in the overall script) are at least one and none of them has  *)
(* Hugo_Symbol, or none has Variant_Classification.                        *)
(***************************************************************************)
C8_FailsWhenNoTableHasColumn ==
    /\ variant = "per_stage" =>
          /\ \A stg \in DictKeys(stage_summaries) : ~GroupFails(MafTables(stg))
          /\ pc = "failed" => error = "KeyError" /\ GroupFails(MafTables(stage))
    /\ variant = "overall" =>
          /\ pc = "done" => ~GroupFails(AllMafTables)
          /\ pc = "failed" => error = "KeyError" /\ GroupFails(AllMafTables)

\* A run ended without error although a parsed mutation file lacks a column.
C8_Witness ==
    /\ pc = "done"
    /\ error = "none"
    /\ \E p \in AllMafTables : ~HasBoth(p)
    /\ \E i \in DOMAIN sheets : sheets[i].name = "Mutation_Classification"

\* The keys create_stage_summary is to return, and what C9 says of a
\* summary that was returned.
ExpectedKeys(sd) ==
    (IF sd.cnv_segment_means # <<>> THEN {"CNV_Segment_Stats"} ELSE {})
    \cup (IF sd.snp_data # <<>>
          THEN {"Top_Mutated_Genes", "Mutation_Classification"} ELSE {})

C9_KeysWhenReturned ==
    /\ StageSummarised =>
          LET summary == DictGet(stage_summaries, stage)
          IN  /\ {summary[i][1] : i \in DOMAIN summary} = ExpectedKeys(stage_data)
              /\ Len(summary) = Cardinality(ExpectedKeys(stage_data))
    /\ (variant = "per_stage" /\ pc = "done") =>
          /\ DictKeys(stage_summaries) = StageDirs
          /\ \A stg \in StageDirs :
                Cardinality({i \in DOMAIN sheets : sheets[i].stage = stg})
                    = Len(DictGet(stage_summaries, stg))

(***************************************************************************)
(* C9 as stated: for every StageData create_stage_summary returns a        *)
(* mapping with CNV_Segment_Stats iff the stage has a segment mean, and    *)
(* Top_Mutated_Genes and Mutation_Classification iff it has a mutation     *)
(* table; main records every stage, and exports no sheet for a stage with  *)
(* neither.                                                                *)
(***************************************************************************)
C9_SummaryKeys ==
    /\ C9_KeysWhenReturned
    /\ variant = "per_stage" => pc # "failed"

(***************************************************************************)
(* C9 amended: as C9 for every StageData whose mutation tables, if any,    *)
(* together have both Hugo_Symbol and Variant_Classification; for any      *)
(* other StageData create_stage_summary raises key-not-found and returns   *)
(* no mapping.                                                             *)
(***************************************************************************)
C9_SummaryKeysOrKeyError ==
    /\ C9_KeysWhenReturned
    /\ (variant = "per_stage" /\ pc = "failed") =>
          /\ stage \notin DictKeys(stage_summaries)
          /\ GroupFails(Range(stage_data.snp_data))
    /\ StageSummarised => ~GroupFails(Range(stage_data.snp_data))

\* The per-stage script ended having recorded a stage with an empty summary
\* beside a stage with sheets.
C9_Witness ==
    /\ variant = "per_stage"
    /\ pc = "done"
    /\ \E i \in DOMAIN stage_summaries : stage_summaries[i][2] = <<>>
    /\ sheets # <<>>

\* The two parts of C10: the merged collection, and the step that merges a stage.
C10_MergedCollection ==
    variant = "overall" =>
        /\ \A i \in DOMAIN all_snp_data_by_sample :
              /\ all_snp_data_by_sample[i][2] # <<>>
              /\ \A p \in Range(all_snp_data_by_sample[i][2]) :
                    p \in AllMafTables /\ p[2] = all_snp_data_by_sample[i][1]
        /\ \A i, j \in DOMAIN all_snp_data_by_sample :
              i # j => all_snp_data_by_sample[i][1] # all_snp_data_by_sample[j][1]
        /\ pc \in {"done", "failed"} =>
              /\ \A p \in AllMafTables :
                    Occurrences(Flatten(all_snp_data_by_sample), p) = 1
              /\ Len(all_cnv_segment_means) =
                    SumOver(UNION {CnvContributors(stg) : stg \in StageDirs},
                            [p \in fs |-> Len(Content(FileOf(p)).rows)])

C10_StageAppended ==
    (variant = "overall" /\ pc = "samples" /\ pc' = "stages") =>
        all_cnv_segment_means' = all_cnv_segment_means \o stage_data.cnv_segment_means

(***************************************************************************)
(* C10: in the overall script every parsed mutation table is in the merged *)
(* sample-keyed collection exactly once, under its sample identifier, also *)
(* when the sample occurs in several stages; no key maps to an empty       *)
(* sequence; and the merged segment means are the concatenation of the     *)
(* stages' sequences.                                                      *)
(***************************************************************************)
C10_Merged == []C10_MergedCollection /\ [][C10_StageAppended]_vars

\* One sample key holds two tables that come from two stages, and segment
\* means were merged.
C10_Witness ==
    /\ variant = "overall"
    /\ pc = "done"
    /\ \E i \in DOMAIN all_snp_data_by_sample :
          /\ Len(all_snp_data_by_sample[i][2]) = 2
          /\ all_snp_data_by_sample[i][2][1][1] # all_snp_data_by_sample[i][2][2][1]

====
